---- MODULE Spec2Model ----
(***************************************************************************)
(* HWCPipe: the Measurement value type (measurement.h) and the PMU         *)
(* sampling instrument (pmu_counter.cpp).                                  *)
(*                                                                         *)
(* Spec            the instrument: start(), stop(), measurements() and the *)
(*                 hardware counting events between the calls.             *)
(* SpecValue       the arithmetic of Measurement::Value on drawn inputs.   *)
(* SpecMeasurement the two Measurement constructors on drawn inputs.       *)
(***************************************************************************)
EXTENDS Integers, Sequences, FiniteSets, TLC

VARIABLES
    pmu,          \* the six counter handles _pmu_*: the count each holds
    unreadable,   \* the handles whose get_value() fails on this host
    acc,          \* the six accumulators _cycles .. _branch_misses
    thrown,       \* TRUE iff the last stop() was left by an exception
    result,       \* the map the last measurements() call returned
    lastOp,       \* history: last of start()/stop() called ("none" before)
    fresh,        \* history: measurements() was called, no start()/stop() since
    stopSeen,     \* history: stop() has been called
    startSeen,    \* history: start() was called before the last stop()
    sinceStart,   \* history: events per counter since the last start()
    sinceCapture, \* history: events per counter since the later of the last
                  \*          start() and the last stop() that read the counter
    interval,     \* history: sinceStart as it was when stop() was last called
    window,       \* history: sinceCapture as it was when stop() was last called
    held,         \* history: the handle counts as they were when stop() was last called
    events,       \* history: number of events counted so far
    vin,          \* history: the operands <<a, b>> as drawn
    va, vb, vn,   \* Value operands a, b and the int divisor
    vop, vres,    \* the Value operation applied last and what it produced
    mv, munit, mraw, \* constructor arguments v, unit, raw
    mop, mres     \* the constructor called and the Measurement constructed

pmuVars == <<pmu, unreadable, acc, thrown, result, lastOp, fresh, stopSeen, startSeen,
             sinceStart, sinceCapture, interval, window, held, events>>
valVars == <<vin, va, vb, vn, vop, vres>>
measVars == <<mv, munit, mraw, mop, mres>>
vars == <<pmuVars, valVars, measVars>>

\* Bounds of the model.
MaxEvents == 2
MaxInt == 2
MaxRaw == 2


(***************************************************************************)
(* double.  A double is modelled by the extended fraction num/den it       *)
(* stands for: den > 0 a finite value in lowest terms, num/0 with          *)
(* num = 1 or -1 an infinity, 0/0 a NaN.  Rounding to 53 bits and the sign *)
(* of zero and of NaN are not modelled.                                    *)
(***************************************************************************)
Abs(x) == IF x < 0 THEN -x ELSE x
Sign(x) == IF x < 0 THEN -1 ELSE IF x > 0 THEN 1 ELSE 0

RECURSIVE Gcd(_, _)
Gcd(x, y) == IF y = 0 THEN x ELSE Gcd(y, x % y)

NaN == [num |-> 0, den |-> 0]
Inf(s) == [num |-> s, den |-> 0]
IsNaN(x) == x.den = 0 /\ x.num = 0
IsInf(x) == x.den = 0 /\ x.num # 0
IsFinite(x) == x.den > 0

\* The finite double n/d, d # 0.
Frac(n, d) ==
    LET g == Gcd(Abs(n), Abs(d))
    IN  [num |-> Sign(d) * (n \div g), den |-> Abs(d) \div g]

\* static_cast<double>(n) of an integer n.
ToDouble(n) == [num |-> n, den |-> 1]

DNeg(x) == [num |-> -x.num, den |-> x.den]

DAdd(x, y) ==
    IF IsNaN(x) \/ IsNaN(y) THEN NaN
    ELSE IF IsInf(x) /\ IsInf(y) THEN (IF x.num = y.num THEN x ELSE NaN)
    ELSE IF IsInf(x) THEN x
    ELSE IF IsInf(y) THEN y
    ELSE Frac(x.num * y.den + y.num * x.den, x.den * y.den)

DSub(x, y) == DAdd(x, DNeg(y))

DMul(x, y) ==
    IF IsNaN(x) \/ IsNaN(y) THEN NaN
    ELSE IF IsInf(x) \/ IsInf(y)
         THEN (IF x.num = 0 \/ y.num = 0 THEN NaN ELSE Inf(Sign(x.num) * Sign(y.num)))
    ELSE Frac(x.num * y.num, x.den * y.den)

DDiv(x, y) ==
    IF IsNaN(x) \/ IsNaN(y) THEN NaN
    ELSE IF IsInf(x) THEN (IF IsInf(y) THEN NaN
                           ELSE Inf(x.num * (IF y.num < 0 THEN -1 ELSE 1)))
    ELSE IF IsInf(y) THEN ToDouble(0)
    ELSE IF y.num = 0 THEN (IF x.num = 0 THEN NaN ELSE Inf(Sign(x.num)))
    ELSE Frac(x.num * y.den, x.den * y.num)

DLess(x, y) ==
    IF IsNaN(x) \/ IsNaN(y) THEN FALSE
    ELSE IF IsInf(x) THEN x.num < 0 /\ ~(IsInf(y) /\ y.num < 0)
    ELSE IF IsInf(y) THEN y.num > 0
    ELSE x.num * y.den < y.num * x.den

\* Exact integer square root, for the perfect squares the inputs are drawn from.
ISqrt(n) == CHOOSE r \in 0..n : r * r = n
IsSquare(n) == n >= 0 /\ \E r \in 0..n : r * r = n

\* std::sqrt
DSqrt(x) ==
    IF IsNaN(x) \/ x.num < 0 THEN NaN
    ELSE IF IsInf(x) THEN x
    ELSE [num |-> ISqrt(x.num), den |-> ISqrt(x.den)]

(***************************************************************************)
(* Text: what operator<< writes.                                           *)
(***************************************************************************)
Digit(d) == <<"0", "1", "2", "3", "4", "5", "6", "7", "8", "9">>[d + 1]

RECURSIVE NatToStr(_)
NatToStr(n) == IF n < 10 THEN Digit(n) ELSE NatToStr(n \div 10) \o Digit(n % 10)

\* ss << long long: plain decimal, '-' for a negative value.
IntToStr(n) == IF n < 0 THEN "-" \o NatToStr(-n) ELSE NatToStr(n)

\* n written with exactly four digits, n in 0..9999.
Pad4(n) == Digit(n \div 1000) \o Digit((n \div 100) % 10)
           \o Digit((n \div 10) % 10) \o Digit(n % 10)

\* |x| * 10^4 rounded to the nearest integer, ties to even.
Scaled4(x) ==
    LET q == (Abs(x.num) % x.den) * 10000
        s == (Abs(x.num) \div x.den) * 10000 + q \div x.den
        r == q % x.den
    IN  IF 2 * r > x.den \/ (2 * r = x.den /\ s % 2 = 1) THEN s + 1 ELSE s

\* ss << std::fixed, precision(4), << double
DoubleToStr(x) ==
    IF IsNaN(x) THEN "nan"
    ELSE IF IsInf(x) THEN (IF x.num < 0 THEN "-inf" ELSE "inf")
    ELSE (IF x.num < 0 THEN "-" ELSE "")
         \o NatToStr(Scaled4(x) \div 10000) \o "." \o Pad4(Scaled4(x) % 10000)

(***************************************************************************)
(* Measurement::Value.  The union v is modelled by its active member: v is *)
(* an integer when is_floating_point is FALSE and a double when it is      *)
(* TRUE.  Operands of the binary operators are drawn with equal tags; the  *)
(* integers drawn are far from the ends of long long.                      *)
(***************************************************************************)
\* Value(bool is_floating): v{0}
Value(is_floating) ==
    [is_floating_point |-> is_floating,
     v |-> IF is_floating THEN ToDouble(0) ELSE 0]

IntValue(n) == [is_floating_point |-> FALSE, v |-> n]
FloatValue(x) == [is_floating_point |-> TRUE, v |-> x]

\* operator<< and to_string()
to_string(value) ==
    IF value.is_floating_point THEN DoubleToStr(value.v) ELSE IntToStr(value.v)

\* Value operator+(Value b) const
OpAdd(self, b) ==
    IF self.is_floating_point
    THEN [b EXCEPT !.v = DAdd(b.v, self.v)]
    ELSE [b EXCEPT !.v = b.v + self.v]

\* Value operator-(Value b) const
OpSub(self, b) ==
    IF self.is_floating_point
    THEN [b EXCEPT !.v = DSub(b.v, self.v)]
    ELSE [b EXCEPT !.v = b.v - self.v]

\* Value operator*(Value b) const
OpMul(self, b) ==
    IF self.is_floating_point
    THEN [b EXCEPT !.v = DMul(b.v, self.v)]
    ELSE [b EXCEPT !.v = b.v * self.v]

\* long long / int for a divisor other than 0: the quotient truncated towards zero.
TruncDiv(x, y) == Sign(x) * Sign(y) * (Abs(x) \div Abs(y))

\* What a call leaves behind: a returned value, or the process trapped.
Returned(x) == [trap |-> FALSE, val |-> x]
Trapped == [trap |-> TRUE, val |-> "SIGFPE"]

\* Value operator/(int b) const.  v.integer / 0 is undefined behaviour: the
\* division instruction traps (x86) or yields some integer (AArch64 yields 0).
OpDiv(self, b) ==
    IF self.is_floating_point
    THEN {Returned([Value(TRUE) EXCEPT !.v = DDiv(self.v, ToDouble(b))])}
    ELSE IF b = 0
         THEN {Trapped} \cup {Returned([Value(FALSE) EXCEPT !.v = k]) : k \in -MaxInt..MaxInt}
         ELSE {Returned([Value(FALSE) EXCEPT !.v = TruncDiv(self.v, b)])}

\* Value &operator-=(const Value &b)
OpSubAssign(self, b) ==
    IF self.is_floating_point
    THEN [self EXCEPT !.v = DSub(self.v, b.v)]
    ELSE [self EXCEPT !.v = self.v - b.v]

\* bool operator<(const Value &b) const
OpLess(self, b) ==
    IF self.is_floating_point THEN DLess(self.v, b.v) ELSE self.v < b.v

\* static double relative_standard_deviation(variance, mean)
relative_standard_deviation(variance, mean) ==
    IF variance.is_floating_point
    THEN DDiv(DMul(ToDouble(100), DSqrt(variance.v)), mean.v)
    ELSE DDiv(DMul(ToDouble(100), DSqrt(ToDouble(variance.v))), ToDouble(mean.v))

(***************************************************************************)
(* Measurement                                                             *)
(***************************************************************************)
\* Measurement(Floating v, std::string unit, std::list<std::string> raw = {})
MeasurementFloating(v, unit, raw) ==
    LET value == [Value(TRUE) EXCEPT !.v = v]
    IN  [unit |-> unit,
         raw_data |-> IF raw = <<>> THEN <<to_string(value)>> ELSE raw,
         value |-> value]

\* Mutant: the raw list is stored as given, also when it is empty.
MeasurementIntegerNoDefault(v, unit, raw) ==
    [unit |-> unit, raw_data |-> raw, value |-> [Value(FALSE) EXCEPT !.v = v]]

\* Measurement(Integer v, std::string unit, std::list<std::string> raw = {})
MeasurementInteger(v, unit, raw) ==
    LET value == [Value(FALSE) EXCEPT !.v = v]
    IN  [unit |-> unit,
         raw_data |-> IF raw = <<>> THEN <<to_string(value)>> ELSE raw,
         value |-> value]

\* operator<<(std::ostream &, const Measurement &)
Render(measurement) == to_string(measurement.value) \o " " \o measurement.unit

(***************************************************************************)
(* PMUCounter.  A counter handle is modelled by the count it holds:        *)
(* reset() makes it 0, the hardware adds to it, and get_value() returns it *)
(* or fails with std::runtime_error.  Which handles fail is a condition of *)
(* the host (counter unsupported, no privilege): any subset of the six,    *)
(* the same for the whole run.                                             *)
(***************************************************************************)
Counters == {"cycles", "instructions", "cache_references", "cache_misses",
             "branch_instructions", "branch_misses"}

Zeros == [c \in Counters |-> 0]

\* Mutant: no catch; the failure leaves stop() and skips the blocks after it.
TryCaptureNoCatch(s, c, F) ==
    IF s.thrown THEN s
    ELSE IF c \in F
         THEN [s EXCEPT !.thrown = TRUE]
         ELSE [s EXCEPT !.acc[c] = s.pmu[c], !.pmu[c] = 0]

\* Mutant: the handle is read but not reset.
TryCaptureNoReset(s, c, F) ==
    IF c \in F
    THEN [s EXCEPT !.acc[c] = 0]
    ELSE [s EXCEPT !.acc[c] = s.pmu[c]]

\* One try/catch block of stop(): read the handle c into its accumulator and
\* reset it; a read that fails leaves 0 in the accumulator and the handle alone.
TryCapture(s, c, F) ==
    IF c \in F
    THEN [s EXCEPT !.acc[c] = 0]
    ELSE [s EXCEPT !.acc[c] = s.pmu[c], !.pmu[c] = 0]

\* The six blocks of stop(), in the order of the code.
StopBody(s0, F) ==
    LET s1 == TryCapture(s0, "cycles", F)
        s2 == TryCapture(s1, "instructions", F)
        s3 == TryCapture(s2, "cache_references", F)
        s4 == TryCapture(s3, "cache_misses", F)
        s5 == TryCapture(s4, "branch_instructions", F)
    IN  TryCapture(s5, "branch_misses", F)

\* Mutant: start() also clears the accumulators.
StartBodyDiscard(s) == [s EXCEPT !.pmu = Zeros, !.acc = Zeros]

\* Mutant: start() leaves the handles counting.
StartBodyNoReset(s) == s

\* The six resets of start().
StartBody(s) == [s EXCEPT !.pmu = Zeros]

\* Mutant: the ratios are built upside down.
MeasurementsMapSwapped(a) ==
    "CPU cycles" :> MeasurementInteger(a["cycles"], "cycles", <<>>)
    @@ "CPU instructions" :> MeasurementInteger(a["instructions"], "instructions", <<>>)
    @@ "Cache miss ratio" :>
         MeasurementFloating(DDiv(ToDouble(a["cache_references"]),
                                  ToDouble(a["cache_misses"])), "", <<>>)
    @@ "Branch miss ratio" :>
         MeasurementFloating(DDiv(ToDouble(a["branch_instructions"]),
                                  ToDouble(a["branch_misses"])), "", <<>>)

\* The map measurements() builds from the accumulators a.
MeasurementsMap(a) ==
    "CPU cycles" :> MeasurementInteger(a["cycles"], "cycles", <<>>)
    @@ "CPU instructions" :> MeasurementInteger(a["instructions"], "instructions", <<>>)
    @@ "Cache miss ratio" :>
         MeasurementFloating(DDiv(ToDouble(a["cache_misses"]),
                                  ToDouble(a["cache_references"])), "", <<>>)
    @@ "Branch miss ratio" :>
         MeasurementFloating(DDiv(ToDouble(a["branch_misses"]),
                                  ToDouble(a["branch_instructions"])), "", <<>>)

\* Mutant: measurements() hands the accumulators out and clears them.
MeasurementsBodyClear(s) == [s EXCEPT !.acc = Zeros]

\* What measurements() does to the instrument: nothing, it is const.
MeasurementsBody(s) == s

Self == [pmu |-> pmu, acc |-> acc, thrown |-> FALSE]

NoValue == [trap |-> FALSE, val |-> "none"]
NoMeasurement == [unit |-> "", raw_data |-> <<>>, value |-> Value(FALSE)]

ValIdle == /\ va = Value(FALSE) /\ vb = Value(FALSE) /\ vn = 0
           /\ vin = <<va, vb>>
           /\ vop = "none" /\ vres = NoValue
MeasIdle == /\ mv = Value(FALSE) /\ munit = "" /\ mraw = <<>>
            /\ mop = "none" /\ mres = NoMeasurement

PmuInit ==
    /\ pmu = Zeros
    /\ unreadable \in SUBSET Counters
    /\ acc = Zeros
    /\ thrown = FALSE
    /\ result = <<>>
    /\ lastOp = "none"
    /\ fresh = FALSE
    /\ stopSeen = FALSE
    /\ startSeen = FALSE
    /\ sinceStart = Zeros
    /\ sinceCapture = Zeros
    /\ interval = Zeros
    /\ window = Zeros
    /\ held = Zeros
    /\ events = 0

Init == PmuInit /\ ValIdle /\ MeasIdle

\* The hardware counts one event on counter c.
Tick(c) ==
    /\ events < MaxEvents
    /\ pmu' = [pmu EXCEPT ![c] = @ + 1]
    /\ sinceStart' = [sinceStart EXCEPT ![c] = @ + 1]
    /\ sinceCapture' = [sinceCapture EXCEPT ![c] = @ + 1]
    /\ events' = events + 1
    /\ UNCHANGED <<unreadable, acc, thrown, result, lastOp, fresh, stopSeen, startSeen,
                   interval, window, held>>
    /\ UNCHANGED <<valVars, measVars>>

\* void PMUCounter::start()
start ==
    /\ pmu' = StartBody(Self).pmu
    /\ acc' = StartBody(Self).acc
    /\ lastOp' = "start"
    /\ fresh' = FALSE
    /\ sinceStart' = Zeros
    /\ sinceCapture' = Zeros
    /\ UNCHANGED <<unreadable, thrown, result, stopSeen, startSeen, interval, window,
                   held, events>>
    /\ UNCHANGED <<valVars, measVars>>

\* void PMUCounter::stop()
stop ==
    /\ pmu' = StopBody(Self, unreadable).pmu
    /\ acc' = StopBody(Self, unreadable).acc
    /\ thrown' = StopBody(Self, unreadable).thrown
    /\ lastOp' = "stop"
    /\ fresh' = FALSE
    /\ stopSeen' = TRUE
    /\ startSeen' = (startSeen \/ lastOp = "start")
    /\ interval' = sinceStart
    /\ window' = sinceCapture
    /\ held' = pmu
    /\ sinceCapture' = [c \in Counters |-> IF c \in unreadable THEN sinceCapture[c] ELSE 0]
    /\ UNCHANGED <<unreadable, result, sinceStart, events>>
    /\ UNCHANGED <<valVars, measVars>>

\* MeasurementsMap PMUCounter::measurements() const
measurements ==
    /\ pmu' = MeasurementsBody(Self).pmu
    /\ acc' = MeasurementsBody(Self).acc
    /\ result' = MeasurementsMap(acc)
    /\ fresh' = TRUE
    /\ UNCHANGED <<unreadable, thrown, lastOp, stopSeen, startSeen, sinceStart, sinceCapture,
                   interval, window, held, events>>
    /\ UNCHANGED <<valVars, measVars>>

Next ==
    \/ \E c \in Counters : Tick(c)
    \/ start
    \/ stop
    \/ measurements

Spec == Init /\ [][Next]_vars

(***************************************************************************)
(* SpecValue: the operators of Value applied to drawn operands.            *)
(***************************************************************************)
IntPool == -MaxInt..MaxInt
FloatPool == {Frac(n, d) : n \in IntPool, d \in {1, 4}}
ValuePool == {IntValue(n) : n \in IntPool} \cup {FloatValue(x) : x \in FloatPool}

PmuIdle == PmuInit /\ unreadable = {}

ValInit ==
    /\ va \in ValuePool
    /\ vb \in {b \in ValuePool : b.is_floating_point = va.is_floating_point}
    /\ vn \in IntPool
    /\ vin = <<va, vb>>
    /\ vop = "none"
    /\ vres = NoValue
    /\ PmuIdle /\ MeasIdle

Applied(op, outcome) ==
    /\ vop = "none"
    /\ vop' = op
    /\ vres' = outcome
    /\ UNCHANGED <<vin, vb, vn, pmuVars, measVars>>

\* a + b
Add == Applied("add", Returned(OpAdd(va, vb))) /\ va' = va

\* a - b
Sub == Applied("sub", Returned(OpSub(va, vb))) /\ va' = va

\* a * b
Mul == Applied("mul", Returned(OpMul(va, vb))) /\ va' = va

\* a / n
Div == \E o \in OpDiv(va, vn) : Applied("div", o) /\ va' = va

\* a -= b
SubAssign ==
    /\ Applied("sub_assign", Returned(OpSubAssign(va, vb)))
    /\ va' = OpSubAssign(va, vb)

\* a < b
Less == Applied("less", Returned(OpLess(va, vb))) /\ va' = va

\* The square root is modelled exactly: the variance drawn is negative or a
\* fraction of perfect squares.
ExactRoot(value) ==
    LET x == IF value.is_floating_point THEN value.v ELSE ToDouble(value.v)
    IN  x.num < 0 \/ (IsSquare(x.num) /\ IsSquare(x.den))

\* Value::relative_standard_deviation(a, b): variance a, mean b
Rsd ==
    /\ ExactRoot(va)
    /\ Applied("rsd", Returned(relative_standard_deviation(va, vb)))
    /\ va' = va

\* (a + b) - b
AddSub == Applied("add_sub", Returned(OpSub(OpAdd(va, vb), vb))) /\ va' = va

ValNext == Add \/ Sub \/ Mul \/ Div \/ SubAssign \/ Less \/ Rsd \/ AddSub

SpecValue == ValInit /\ [][ValNext]_vars

(***************************************************************************)
(* SpecMeasurement: the two constructors applied to drawn arguments.       *)
(***************************************************************************)
RawStrings == {"7", "1.0000"}
RawPool == UNION {[1..k -> RawStrings] : k \in 0..MaxRaw}
UnitPool == {"", "ms", "cycles"}
NumberPool ==
    ValuePool \cup {FloatValue(x) : x \in {Frac(314159, 100000), NaN, Inf(1), Inf(-1)}}

MeasInit ==
    /\ mv \in NumberPool
    /\ munit \in UnitPool
    /\ mraw \in RawPool
    /\ mop = "none"
    /\ mres = NoMeasurement
    /\ PmuIdle /\ ValIdle

\* Measurement(v, unit, raw) with a floating v
ConstructFloating ==
    /\ mop = "none"
    /\ mv.is_floating_point
    /\ mop' = "floating"
    /\ mres' = MeasurementFloating(mv.v, munit, mraw)
    /\ UNCHANGED <<mv, munit, mraw, pmuVars, valVars>>

\* Measurement(v, unit, raw) with an integral v
ConstructInteger ==
    /\ mop = "none"
    /\ ~mv.is_floating_point
    /\ mop' = "integer"
    /\ mres' = MeasurementInteger(mv.v, munit, mraw)
    /\ UNCHANGED <<mv, munit, mraw, pmuVars, valVars>>

MeasNext == ConstructFloating \/ ConstructInteger

SpecMeasurement == MeasInit /\ [][MeasNext]_vars

(***************************************************************************)
(*                               Properties                                *)
(***************************************************************************)
Readable == Counters \ unreadable

\* What the last stop() stored: 0 for a handle whose read failed, else the
\* count the handle returned.
CapturedAtStop == [c \in Counters |-> IF c \in unreadable THEN 0 ELSE held[c]]

MapKeys == {"CPU cycles", "CPU instructions", "Cache miss ratio", "Branch miss ratio"}

\* C1: whatever subset of the six handles fails to read, stop() is left
\* normally, the accumulator of each failing counter is 0 and the accumulator
\* of every other counter is the value its handle returned.
C1_FailureIsolated ==
    lastOp = "stop" =>
        /\ ~thrown
        /\ \A c \in unreadable : acc[c] = 0
        /\ \A c \in Readable : acc[c] = held[c]

C1_Witness ==
    /\ lastOp = "stop"
    /\ unreadable = {"cache_references", "branch_misses"}
    /\ held["cache_references"] = 1 /\ acc["cache_references"] = 0
    /\ held["cache_misses"] = 1 /\ acc["cache_misses"] = 1

\* C2 as stated: once a stop() has followed a start(), each accumulator of a
\* readable counter is the number of events counted between the most recent
\* start() and the most recent stop().
C2_SinceStart ==
    startSeen => \A c \in Readable : acc[c] = interval[c]

\* C2 as amended: once a stop() has followed a start(), each accumulator of a
\* readable counter is the number of events counted up to the most recent
\* stop() since the later of the most recent start() and the stop() before.
C2_SinceLastReset ==
    startSeen => \A c \in Readable : acc[c] = window[c]

C2_Witness ==
    /\ startSeen
    /\ lastOp = "stop"
    /\ "cycles" \in Readable
    /\ interval["cycles"] = 2
    /\ acc["cycles"] = 1

\* C3 as stated: after a stop() that captured something and then a start(),
\* measurements() no longer reports what that stop() captured.
C3_StartDiscards ==
    (lastOp = "start" /\ stopSeen /\ fresh /\ CapturedAtStop # Zeros) =>
        result # MeasurementsMap(CapturedAtStop)

\* C3 as amended: start() resets the six handles, which then hold the events
\* counted since, and leaves the accumulators alone: after a stop() and then
\* a start(), measurements() still reports what that stop() captured.
C3_StartKeepsCaptured ==
    lastOp = "start" =>
        /\ pmu = sinceStart
        /\ (stopSeen /\ fresh) => result = MeasurementsMap(CapturedAtStop)

C3_Witness ==
    /\ lastOp = "start"
    /\ stopSeen
    /\ fresh
    /\ held["cycles"] = 1
    /\ pmu["cycles"] = 0
    /\ result["CPU cycles"].value = IntValue(1)

\* C5: measurements() changes no accumulator and no handle; as long as no
\* start() or stop() follows a call, another call returns the same map; and
\* after a stop() the map is the one of the values that stop() captured,
\* whatever was counted since.
C5_ReadOnlySnapshot ==
    /\ [][measurements => (acc' = acc /\ pmu' = pmu)]_vars
    /\ [](fresh => result = MeasurementsMap(acc))
    /\ []((fresh /\ lastOp = "stop") => result = MeasurementsMap(CapturedAtStop))

C5_Witness ==
    /\ fresh
    /\ lastOp = "stop"
    /\ held["instructions"] = 1
    /\ pmu["instructions"] = 1
    /\ result["CPU instructions"].value = IntValue(1)

\* The double x is the quotient n / d of two counts.
IsRatio(x, n, d) ==
    IF d = 0
    THEN (IF n = 0 THEN IsNaN(x) ELSE IsInf(x) /\ x.num = Sign(n))
    ELSE IsFinite(x) /\ x.num * d = n * x.den

\* C8: after stop(), measurements() returns exactly the four entries: the two
\* counts integer-tagged with their units, the two ratios floating-tagged
\* with the empty unit and equal to misses / references.
C8_FourEntries ==
    (fresh /\ stopSeen) =>
        /\ DOMAIN result = MapKeys
        /\ result["CPU cycles"].value = IntValue(acc["cycles"])
        /\ result["CPU cycles"].unit = "cycles"
        /\ result["CPU instructions"].value = IntValue(acc["instructions"])
        /\ result["CPU instructions"].unit = "instructions"
        /\ \A k \in {"Cache miss ratio", "Branch miss ratio"} :
              /\ result[k].value.is_floating_point
              /\ result[k].unit = ""
        /\ IsRatio(result["Cache miss ratio"].value.v,
                   acc["cache_misses"], acc["cache_references"])
        /\ IsRatio(result["Branch miss ratio"].value.v,
                   acc["branch_misses"], acc["branch_instructions"])

C8_Witness ==
    /\ fresh
    /\ lastOp = "stop"
    /\ acc["cache_misses"] = 1
    /\ acc["cache_references"] = 1
    /\ result["Cache miss ratio"].raw_data = <<"1.0000">>
    /\ result["Branch miss ratio"].raw_data = <<"nan">>
    /\ result["CPU cycles"].raw_data = <<"0">>

\* C9: stop() reads then resets: a handle it read holds only what was counted
\* since, so the next stop() captures just that; a handle whose read failed
\* is not reset, it holds what was counted since the last start().
C9_ReadThenReset ==
    lastOp = "stop" =>
        /\ \A c \in Readable : pmu[c] = sinceCapture[c] /\ acc[c] = window[c]
        /\ \A c \in unreadable : pmu[c] = sinceStart[c]

C9_Witness ==
    /\ lastOp = "stop"
    /\ "cycles" \in unreadable /\ pmu["cycles"] = 1 /\ sinceCapture["cycles"] = 1
    /\ "instructions" \in Readable /\ held["instructions"] = 1
    /\ pmu["instructions"] = 0

\* C4: for integer-tagged a and b, (a + b) - b is a.
C4_AddSubRoundTrip ==
    (vop = "add_sub" /\ ~vin[1].is_floating_point) => vres.val = vin[1]

IsZero(value) ==
    IF value.is_floating_point THEN value.v = ToDouble(0) ELSE value.v = 0

\* C7: no operation ends in an error: a / n returns a Value for every n, 0
\* included, and relative_standard_deviation with a zero mean returns an
\* infinity or a NaN.
C7_Total ==
    /\ vop # "none" => ~vres.trap
    /\ vop = "div" =>
          /\ ~vres.trap
          /\ vres.val.is_floating_point = vin[1].is_floating_point
    /\ (vop = "rsd" /\ IsZero(vin[2])) => ~IsFinite(vres.val)

\* C10: a + b, a - b, a * b and a / n return a Value with the tag of a and b,
\* and a -= b leaves the tag of a and the whole of b as they were.
C10_TagKept ==
    /\ vop \in {"add", "sub", "mul", "div"} =>
          /\ ~vres.trap
          /\ vres.val.is_floating_point = vin[1].is_floating_point
          /\ va = vin[1] /\ vb = vin[2]
    /\ vop = "sub_assign" =>
          /\ va.is_floating_point = vin[1].is_floating_point
          /\ vb = vin[2]

\* C6: a constructed Measurement has raw data: the rendered value alone when
\* the raw list given is empty, else the list given, unchanged.
C6_RawDataNeverEmpty ==
    mop # "none" =>
        /\ mres.raw_data # <<>>
        /\ mraw = <<>> => mres.raw_data = <<to_string(mres.value)>>
        /\ mraw # <<>> => mres.raw_data = mraw

C6_Witness ==
    /\ mop = "floating"
    /\ mraw = <<>>
    /\ munit = "ms"
    /\ mres.raw_data = <<"3.1416">>

====
